---------------------------- MODULE Spec2Model ----------------------------
(***************************************************************************)
(* initiative.sh: command resolution and autocomplete of the reference     *)
(* command family (core/src/reference/command.rs, core/src/app/mod.rs)     *)
(* and race-driven regeneration of an Npc's lockable fields                *)
(* (src/world/npc/race/mod.rs, core/src/world/mod.rs).                     *)
(*                                                                         *)
(* Strings are TLA+ strings; a character is a string of length one.        *)
(* Option<T> is a sequence of length at most one: None == <<>>,            *)
(* Some(x) == <<x>>.  Vec<T> is a sequence.                                *)
(***************************************************************************)
EXTENDS Naturals, Sequences, FiniteSets, TLC

VARIABLES
    pc,               \* "ready": an input line is waiting; "done": it was handled
    op,               \* the operation that produced the current state
    input,            \* the input line handed to the operation
    picked,           \* Option<(label, hint)>: the suggestion the input was copied from
    ref_exact,        \* ReferenceCommand::parse_input(input).0
    ref_fuzzy,        \* ReferenceCommand::parse_input(input).1
    other,            \* what the parsers of the other command families returned
    outcome,          \* the result of App::command
    ref_suggestions,  \* ReferenceCommand::autocomplete(input)
    suggestions,      \* App::autocomplete(input)
    npc,              \* the Npc being generated: five Field<T>
    steps             \* the replace_with calls of the last race regenerate, in order

vars == << pc, op, input, picked, ref_exact, ref_fuzzy, other, outcome,
           ref_suggestions, suggestions, npc, steps >>

cmdVars == << pc, input, picked, ref_exact, ref_fuzzy, other, outcome,
              ref_suggestions, suggestions >>

None == << >>
Some(x) == << x >>

(***************************************************************************)
(* Bounds of the model.                                                    *)
(***************************************************************************)
MaxPrefixLen == 2

(***************************************************************************)
(* Characters and case (utils::CaseInsensitiveStr, str::to_uppercase).     *)
(***************************************************************************)
LowerAlpha == "abcdefghijklmnopqrstuvwxyz"
UpperAlpha == "ABCDEFGHIJKLMNOPQRSTUVWXYZ"

CharAt(s, i) == SubSeq(s, i, i)

AlphaIndex(alpha, c) == CHOOSE i \in 1..Len(alpha) : CharAt(alpha, i) = c

IsUpper(c) == \E i \in 1..Len(UpperAlpha) : CharAt(UpperAlpha, i) = c
IsLower(c) == \E i \in 1..Len(LowerAlpha) : CharAt(LowerAlpha, i) = c

LowerChar(c) == IF IsUpper(c) THEN CharAt(LowerAlpha, AlphaIndex(UpperAlpha, c)) ELSE c
UpperChar(c) == IF IsLower(c) THEN CharAt(UpperAlpha, AlphaIndex(LowerAlpha, c)) ELSE c

\* The byte of an ASCII character: what String::cmp compares.
Ord(c) ==
    IF IsUpper(c) THEN 64 + AlphaIndex(UpperAlpha, c)
    ELSE IF IsLower(c) THEN 96 + AlphaIndex(LowerAlpha, c)
    ELSE 32

RECURSIVE to_lowercase(_)
to_lowercase(s) ==
    IF s = "" THEN ""
    ELSE LowerChar(CharAt(s, 1)) \o to_lowercase(SubSeq(s, 2, Len(s)))

RECURSIVE to_uppercase(_)
to_uppercase(s) ==
    IF s = "" THEN ""
    ELSE UpperChar(CharAt(s, 1)) \o to_uppercase(SubSeq(s, 2, Len(s)))

eq_ci(a, b) == Len(a) = Len(b) /\ to_lowercase(a) = to_lowercase(b)

starts_with_ci(s, prefix) ==
    Len(s) >= Len(prefix) /\ eq_ci(SubSeq(s, 1, Len(prefix)), prefix)

\* Option<&str>: the rest of s behind the prefix.
strip_prefix_ci(s, prefix) ==
    IF starts_with_ci(s, prefix)
    THEN Some(SubSeq(s, Len(prefix) + 1, Len(s)))
    ELSE None

\* a.cmp(b) == Less on strings: bytewise lexicographic, a proper prefix first.
RECURSIVE StrLess(_, _)
StrLess(a, b) ==
    IF b = "" THEN FALSE
    ELSE IF a = "" THEN TRUE
    ELSE IF Ord(CharAt(a, 1)) # Ord(CharAt(b, 1))
         THEN Ord(CharAt(a, 1)) < Ord(CharAt(b, 1))
         ELSE StrLess(SubSeq(a, 2, Len(a)), SubSeq(b, 2, Len(b)))

Range(seq) == { seq[i] : i \in 1..Len(seq) }

(***************************************************************************)
(* The reference vocabularies: Spell, Item, ItemCategory, MagicItem.       *)
(* get_words() lists the names in declaration order; the names are a       *)
(* slice of the SRD tables around "Shield".                                *)
(***************************************************************************)
SpellWords ==
    << "Sacred Flame", "Sanctuary", "Scorching Ray", "Scrying", "Secret Chest",
       "See Invisibility", "Seeming", "Sending", "Sequester", "Shapechange",
       "Shatter", "Shield" >>

ItemWords == << "Shield", "Sickle" >>

ItemCategoryWords == << "Shields" >>

MagicItemWords == << "Deck of Many Things" >>

\* s.parse::<T>(): the entry of T whose name equals s, letter case ignored.
FromStr(words, s) ==
    LET hits == { i \in 1..Len(words) : eq_ci(words[i], s) }
    IN  IF hits = {} THEN None
        ELSE Some(words[CHOOSE i \in hits : \A j \in hits : i <= j])

(***************************************************************************)
(* enum ReferenceCommand                                                   *)
(***************************************************************************)
Spell(name)        == [kind |-> "Spell", name |-> name]
Spells             == [kind |-> "Spells", name |-> ""]
Item(name)         == [kind |-> "Item", name |-> name]
ItemCategory(name) == [kind |-> "ItemCategory", name |-> name]
MagicItem(name)    == [kind |-> "MagicItem", name |-> name]
OpenGameLicense    == [kind |-> "OpenGameLicense", name |-> ""]

ReferenceCommand ==
    { Spell(w) : w \in Range(SpellWords) } \cup { Spells }
      \cup { Item(w) : w \in Range(ItemWords) }
      \cup { ItemCategory(w) : w \in Range(ItemCategoryWords) }
      \cup { MagicItem(w) : w \in Range(MagicItemWords) }
      \cup { OpenGameLicense }

\* impl fmt::Display for ReferenceCommand
Display(c) ==
    CASE c.kind = "Spell"           -> "srd spell " \o c.name
      [] c.kind = "Spells"          -> "srd spells"
      [] c.kind = "Item"            -> "srd item " \o c.name
      [] c.kind = "ItemCategory"    -> "srd item category " \o c.name
      [] c.kind = "MagicItem"       -> "srd magic item " \o c.name
      [] c.kind = "OpenGameLicense" -> "Open Game License"

\* Option::or_else
or_else(a, b) == IF a # None THEN a ELSE b

\* input.strip_prefix_ci(prefix).and_then(|s| s.parse().ok()).map(Self::<kind>)
PrefixedParse(line, prefix, words, kind) ==
    LET rest == strip_prefix_ci(line, prefix)
    IN  IF rest = None THEN None
        ELSE LET parsed == FromStr(words, rest[1])
             IN  IF parsed = None THEN None ELSE Some([kind |-> kind, name |-> parsed[1]])

\* if let Ok(x) = input.parse() { fuzzy_matches.push(Self::<kind>(x)) }
FuzzyParse(line, words, kind) ==
    LET parsed == FromStr(words, line)
    IN  IF parsed = None THEN << >> ELSE << [kind |-> kind, name |-> parsed[1]] >>

\* A parser that compares the two fixed phrasings with ==.
ParseExact_CaseSensitive(line) ==
    IF line = "Open Game License" THEN Some(OpenGameLicense)
    ELSE IF line = "srd spells" THEN Some(Spells)
    ELSE or_else(PrefixedParse(line, "srd spell ", SpellWords, "Spell"),
         or_else(PrefixedParse(line, "srd item category ", ItemCategoryWords, "ItemCategory"),
         or_else(PrefixedParse(line, "srd item ", ItemWords, "Item"),
                 PrefixedParse(line, "srd magic item ", MagicItemWords, "MagicItem"))))

ParseExact(line) ==
    IF eq_ci(line, "Open Game License") THEN Some(OpenGameLicense)
    ELSE IF eq_ci(line, "srd spells") THEN Some(Spells)
    ELSE or_else(PrefixedParse(line, "srd spell ", SpellWords, "Spell"),
         or_else(PrefixedParse(line, "srd item category ", ItemCategoryWords, "ItemCategory"),
         or_else(PrefixedParse(line, "srd item ", ItemWords, "Item"),
                 PrefixedParse(line, "srd magic item ", MagicItemWords, "MagicItem"))))

\* A chained parser: the first sub-type that parses is the only one pushed.
ParseFuzzy_Chained(line) ==
    IF FuzzyParse(line, SpellWords, "Spell") # << >> THEN FuzzyParse(line, SpellWords, "Spell")
    ELSE IF FuzzyParse(line, ItemWords, "Item") # << >> THEN FuzzyParse(line, ItemWords, "Item")
    ELSE IF FuzzyParse(line, ItemCategoryWords, "ItemCategory") # << >>
         THEN FuzzyParse(line, ItemCategoryWords, "ItemCategory")
    ELSE IF FuzzyParse(line, MagicItemWords, "MagicItem") # << >>
         THEN FuzzyParse(line, MagicItemWords, "MagicItem")
    ELSE IF line = "spells" THEN << Spells >> ELSE << >>

ParseFuzzy(line) ==
    FuzzyParse(line, SpellWords, "Spell")
      \o FuzzyParse(line, ItemWords, "Item")
      \o FuzzyParse(line, ItemCategoryWords, "ItemCategory")
      \o FuzzyParse(line, MagicItemWords, "MagicItem")
      \o (IF line = "spells" THEN << Spells >> ELSE << >>)

\* ReferenceCommand::parse_input(input, _) -> (Option<Self>, Vec<Self>)
ReferenceCommand_parse_input(line) ==
    [exact_match |-> ParseExact(line), fuzzy_matches |-> ParseFuzzy(line)]

(***************************************************************************)
(* impl Autocomplete for ReferenceCommand                                  *)
(***************************************************************************)
AutocompleteCap == 10

\* words.zip(repeat(hint))
Zip(words, hint) == [i \in 1..Len(words) |-> << words[i], hint >>]

\* Iterator::take(n)
Take(seq, n) == SubSeq(seq, 1, IF Len(seq) < n THEN Len(seq) ELSE n)

\* The chained label sources, in the order of the chain.
ReferenceLabels ==
    << << "Open Game License", "SRD license" >>, << "spells", "SRD index" >> >>
      \o Zip(SpellWords, "SRD spell")
      \o Zip(ItemWords, "SRD item")
      \o Zip(ItemCategoryWords, "SRD item category")
      \o Zip(MagicItemWords, "SRD magic item")

Matching(labels, line) == SelectSeq(labels, LAMBDA p : starts_with_ci(p[1], line))

\* A chain that lists the spell words a second time.
ReferenceCommand_autocomplete_Twice(line) ==
    Take(Matching(Zip(SpellWords, "SRD spell") \o ReferenceLabels, line), AutocompleteCap)

ReferenceCommand_autocomplete(line) ==
    Take(Matching(ReferenceLabels, line), AutocompleteCap)

(***************************************************************************)
(* The other command families.  Their nouns are the race names             *)
(* (Race's Display) and two GeographyType words; their parsers depend on   *)
(* the context and are left open: any result the parser contract allows.   *)
(***************************************************************************)
WorldWords == << "human", "warforged", "sea", "swamp" >>

WorldCommand_autocomplete(line) == Matching(Zip(WorldWords, "generate"), line)

OtherCommand == [kind |-> "Other", name |-> ""]

NoOther == [exact_match |-> None, fuzzy_matches |-> << >>]

\* At most one family yields an exact match for an input.
OtherParses(refExact) ==
    { [exact_match |-> e, fuzzy_matches |-> f] :
        e \in (IF refExact = None THEN { None, Some(OtherCommand) } ELSE { None }),
        f \in { << >>, << OtherCommand >> } }

\* Command::parse_input: every family is queried, the results are merged.
Command_parse_input(line, oth) ==
    LET ref == ReferenceCommand_parse_input(line)
    IN  [exact_match   |-> or_else(ref.exact_match, oth.exact_match),
         fuzzy_matches |-> ref.fuzzy_matches \o oth.fuzzy_matches]

\* Command::autocomplete: the families' suggestions, chained.
Command_autocomplete(line) ==
    ReferenceCommand_autocomplete(line) \o WorldCommand_autocomplete(line)

Unresolved == [state |-> "Unresolved", ran |-> None, candidates |-> << >>]

\* Command::run on the merged parse: the resolution of section 4.6.
Command_run(parsed, autopick) ==
    IF parsed.exact_match # None
    THEN [state |-> "ExactMatch", ran |-> parsed.exact_match, candidates |-> << >>]
    ELSE IF parsed.fuzzy_matches = << >>
    THEN [state |-> "NoMatch", ran |-> None, candidates |-> << >>]
    ELSE [state      |-> "Ambiguous",
          ran        |-> IF autopick THEN Some(parsed.fuzzy_matches[1]) ELSE None,
          candidates |-> parsed.fuzzy_matches]

(***************************************************************************)
(* impl App                                                                *)
(***************************************************************************)
\* A resolution that lets a fuzzy candidate win over the exact match.
App_command_FuzzyFirst(line, oth, autopick) ==
    LET parsed == Command_parse_input(line, oth)
    IN  Command_run([parsed EXCEPT !.exact_match =
                        IF parsed.fuzzy_matches # << >> THEN None ELSE @], autopick)

App_command(line, oth, autopick) ==
    Command_run(Command_parse_input(line, oth), autopick)

\* The stable slice::sort_by(|(a, _), (b, _)| a.cmp(b)).
RECURSIVE InsertByLabel(_, _)
InsertByLabel(sorted, x) ==
    IF sorted = << >> THEN << x >>
    ELSE IF StrLess(x[1], sorted[1][1]) THEN << x >> \o sorted
    ELSE << sorted[1] >> \o InsertByLabel(Tail(sorted), x)

RECURSIVE sort_by(_)
sort_by(seq) ==
    IF seq = << >> THEN << >>
    ELSE InsertByLabel(sort_by(SubSeq(seq, 1, Len(seq) - 1)), seq[Len(seq)])

App_autocomplete(line) == sort_by(Command_autocomplete(line))

(***************************************************************************)
(* The input lines of the model.                                           *)
(***************************************************************************)
CaseVariants(s) == { s, to_uppercase(s), to_lowercase(s) }

Labels == { p[1] : p \in Range(ReferenceLabels) } \cup Range(WorldWords)

Prefixes(s) ==
    { SubSeq(s, 1, k) : k \in 0..(IF Len(s) < MaxPrefixLen THEN Len(s) ELSE MaxPrefixLen) }

Junk ==
    { "xyzzy", "srd", "srd spell ", "srd spell Sickle", "srd item Shields",
      "srd item category Shield", "srd spells please", "Spells", "sHiElD" }

Inputs ==
    UNION { CaseVariants(Display(c)) : c \in ReferenceCommand }
      \cup UNION { CaseVariants(l) : l \in Labels }
      \cup UNION { UNION { CaseVariants(p) : p \in Prefixes(l) } : l \in Labels }
      \cup Junk

(***************************************************************************)
(* Field<T>, Npc and the race strategies.                                  *)
(***************************************************************************)
Race == { "Human", "Warforged" }
Gender == { "Feminine", "Masculine" }
Age == { "Adult", "Child" }
Size == { "Medium", "Small" }

Name == { "Ann", "Bob" }

StrategyFields == { "gender", "age", "name", "size" }
NpcFields == { "race" } \cup StrategyFields

FieldValues(f) ==
    CASE f = "race"   -> Race
      [] f = "gender" -> Gender
      [] f = "age"    -> Age
      [] f = "name"   -> Name
      [] f = "size"   -> Size

\* Field::default(): no value, unlocked.
Field_default == [value |-> None, is_locked |-> FALSE]

\* Field::replace_with(f): the closure's result is stored unless the field is locked.
Field_replace_with(field, v) ==
    IF field.is_locked THEN field ELSE [field EXCEPT !.value = Some(v)]

\* Field::set(value): stores the value and locks.
Field_set(field, v) == [value |-> Some(v), is_locked |-> TRUE]

Field_lock(field) == [field EXCEPT !.is_locked = TRUE]
Field_unlock(field) == [field EXCEPT !.is_locked = FALSE]

\* Npc::default()
Npc_default == [f \in NpcFields |-> Field_default]

\* A pass that stores the name without asking the field's lock.
RaceGenerate_regenerate_Overwrite(race, n) ==
    { LET n1 == [n EXCEPT !.gender = Field_replace_with(@, g),
                          !.age    = Field_replace_with(@, a)]
      IN  IF n1.gender.value # None /\ n1.age.value # None
          THEN [npc   |-> [n1 EXCEPT !.name = [@ EXCEPT !.value = Some(nm)],
                                     !.size = Field_replace_with(@, sz)],
                steps |-> << "gender", "age", "name", "size" >>]
          ELSE [npc |-> n1, steps |-> << "gender", "age" >>]
      : g \in Gender, a \in Age, nm \in Name, sz \in Size }

\* A pass that decides on name and size before gender and age are regenerated.
RaceGenerate_regenerate_EarlyTest(race, n) ==
    { LET n1 == [n EXCEPT !.gender = Field_replace_with(@, g),
                          !.age    = Field_replace_with(@, a)]
      IN  IF n.gender.value # None /\ n.age.value # None
          THEN [npc   |-> [n1 EXCEPT !.name = Field_replace_with(@, nm),
                                     !.size = Field_replace_with(@, sz)],
                steps |-> << "gender", "age", "name", "size" >>]
          ELSE [npc |-> n1, steps |-> << "gender", "age" >>]
      : g \in Gender, a \in Age, nm \in Name, sz \in Size }

\* RaceGenerate::regenerate(rng, npc) of the strategy of `race`: the set of
\* results over the values the random source can yield.
RaceGenerate_regenerate(race, n) ==
    { LET n1 == [n EXCEPT !.gender = Field_replace_with(@, g),
                          !.age    = Field_replace_with(@, a)]
      IN  IF n1.gender.value # None /\ n1.age.value # None
          THEN [npc   |-> [n1 EXCEPT !.name = Field_replace_with(@, nm),
                                     !.size = Field_replace_with(@, sz)],
                steps |-> << "gender", "age", "name", "size" >>]
          ELSE [npc |-> n1, steps |-> << "gender", "age" >>]
      : g \in Gender, a \in Age, nm \in Name, sz \in Size }

\* A dispatcher that knows one race only.
regenerate_HumanOnly(n) ==
    IF n.race.value # None /\ n.race.value[1] = "Human"
    THEN RaceGenerate_regenerate("Human", n)
    ELSE { [npc |-> n, steps |-> << >>] }

\* race::regenerate(rng, npc)
regenerate(n) ==
    IF n.race.value # None
    THEN CASE n.race.value[1] = "Human"     -> RaceGenerate_regenerate("Human", n)
           [] n.race.value[1] = "Warforged" -> RaceGenerate_regenerate("Warforged", n)
    ELSE { [npc |-> n, steps |-> << >>] }

\* The tables a Demographics can hold: the races of positive weight.
Demographics == (SUBSET Race) \ { {} }

\* impl Generate for Npc: the race is sampled unless locked, then the
\* race's strategy runs.
Npc_regenerate(n, demographics) ==
    UNION { regenerate([n EXCEPT !.race = Field_replace_with(@, r)]) : r \in demographics }

\* Generate::generate(rng, demographics)
Generate_generate(demographics) == Npc_regenerate(Npc_default, demographics)

(***************************************************************************)
(* The session: a line is entered, then parsed, run or completed.          *)
(***************************************************************************)
Cleared ==
    /\ ref_exact' = None
    /\ ref_fuzzy' = << >>
    /\ other' = NoOther
    /\ outcome' = Unresolved
    /\ ref_suggestions' = << >>
    /\ suggestions' = << >>

Init ==
    /\ pc = "ready"
    /\ op = "enter"
    /\ input \in Inputs
    /\ picked = None
    /\ ref_exact = None
    /\ ref_fuzzy = << >>
    /\ other = NoOther
    /\ outcome = Unresolved
    /\ ref_suggestions = << >>
    /\ suggestions = << >>
    /\ npc = Npc_default
    /\ steps = << >>

\* The front end hands over the next line.
Enter ==
    /\ pc = "done"
    /\ \E line \in Inputs : input' = line
    /\ pc' = "ready"
    /\ op' = "enter"
    /\ picked' = None
    /\ Cleared
    /\ UNCHANGED << npc, steps >>

\* The user takes one of the offered reference labels as the next line,
\* as offered or in another letter case.
PickSuggestion ==
    /\ pc = "done"
    /\ op = "autocomplete"
    /\ \E i \in 1..Len(ref_suggestions) :
         /\ input' \in CaseVariants(ref_suggestions[i][1])
         /\ picked' = Some(ref_suggestions[i])
    /\ pc' = "ready"
    /\ op' = "pick"
    /\ Cleared
    /\ UNCHANGED << npc, steps >>

\* ReferenceCommand::parse_input(input, &app_meta)
ParseInput ==
    /\ pc = "ready"
    /\ LET r == ReferenceCommand_parse_input(input)
       IN  /\ ref_exact' = r.exact_match
           /\ ref_fuzzy' = r.fuzzy_matches
    /\ pc' = "done"
    /\ op' = "parse_input"
    /\ UNCHANGED << input, picked, other, outcome, ref_suggestions, suggestions, npc, steps >>

\* App::command(input)
Command ==
    /\ pc = "ready"
    /\ LET r == ReferenceCommand_parse_input(input)
       IN  /\ ref_exact' = r.exact_match
           /\ ref_fuzzy' = r.fuzzy_matches
           /\ \E oth \in OtherParses(r.exact_match), autopick \in BOOLEAN :
                /\ other' = oth
                /\ outcome' = App_command(input, oth, autopick)
    /\ pc' = "done"
    /\ op' = "command"
    /\ UNCHANGED << input, picked, ref_suggestions, suggestions, npc, steps >>

\* App::autocomplete(input)
Autocomplete ==
    /\ pc = "ready"
    /\ ref_suggestions' = ReferenceCommand_autocomplete(input)
    /\ suggestions' = App_autocomplete(input)
    /\ pc' = "done"
    /\ op' = "autocomplete"
    /\ UNCHANGED << input, picked, ref_exact, ref_fuzzy, other, outcome, npc, steps >>

Next == Enter \/ PickSuggestion \/ ParseInput \/ Command \/ Autocomplete

Spec == Init /\ [][Next]_vars

(***************************************************************************)
(* Generation: an Npc is generated, edited, locked and regenerated.        *)
(***************************************************************************)
GenInit ==
    /\ pc = "done"
    /\ op = "new"
    /\ input = ""
    /\ picked = None
    /\ ref_exact = None
    /\ ref_fuzzy = << >>
    /\ other = NoOther
    /\ outcome = Unresolved
    /\ ref_suggestions = << >>
    /\ suggestions = << >>
    /\ npc = Npc_default
    /\ steps = << >>

\* Npc::generate(rng, demographics)
Generate ==
    /\ \E r \in UNION { Generate_generate(d) : d \in Demographics } :
         /\ npc' = r.npc
         /\ steps' = r.steps
    /\ op' = "generate"
    /\ UNCHANGED cmdVars

\* npc.regenerate(rng, demographics)
Regenerate ==
    /\ \E r \in UNION { Npc_regenerate(npc, d) : d \in Demographics } :
         /\ npc' = r.npc
         /\ steps' = r.steps
    /\ op' = "regenerate"
    /\ UNCHANGED cmdVars

\* race::regenerate(rng, &mut npc)
RaceRegenerate ==
    /\ \E r \in regenerate(npc) :
         /\ npc' = r.npc
         /\ steps' = r.steps
    /\ op' = "race_regenerate"
    /\ UNCHANGED cmdVars

\* The user edits a field: npc.<f>.set(v)
SetField ==
    /\ \E f \in NpcFields : \E v \in FieldValues(f) :
         npc' = [npc EXCEPT ![f] = Field_set(@, v)]
    /\ op' = "set"
    /\ UNCHANGED << steps >>
    /\ UNCHANGED cmdVars

LockField ==
    /\ \E f \in NpcFields : npc' = [npc EXCEPT ![f] = Field_lock(@)]
    /\ op' = "lock"
    /\ UNCHANGED << steps >>
    /\ UNCHANGED cmdVars

UnlockField ==
    /\ \E f \in NpcFields : npc' = [npc EXCEPT ![f] = Field_unlock(@)]
    /\ op' = "unlock"
    /\ UNCHANGED << steps >>
    /\ UNCHANGED cmdVars

GenNext ==
    Generate \/ Regenerate \/ RaceRegenerate \/ SetField \/ LockField \/ UnlockField

GenSpec == GenInit /\ [][GenNext]_vars

(***************************************************************************)
(* Properties.                                                             *)
(***************************************************************************)
Parsed == op \in { "parse_input", "command" }

\* C1: for every ReferenceCommand c, parse_input of c's Display string and of
\* that string upper-cased returns exactly (Some(c), empty fuzzy list).
C1_DisplayRoundTrip ==
    Parsed =>
        \A c \in ReferenceCommand :
            input \in { Display(c), to_uppercase(Display(c)) }
                => ref_exact = Some(c) /\ ref_fuzzy = << >>

C1_Witness ==
    /\ op = "parse_input"
    /\ input = "SRD MAGIC ITEM DECK OF MANY THINGS"
    /\ ref_exact = Some(MagicItem("Deck of Many Things"))
    /\ ref_fuzzy = << >>

AllMatching(line) ==
    { p \in Range(ReferenceLabels) \cup Range(Zip(WorldWords, "generate")) :
        starts_with_ci(p[1], line) }

SortedByLabel(seq) ==
    \A i \in 1..Len(seq) : \A j \in 1..Len(seq) :
        i < j => ~ StrLess(seq[j][1], seq[i][1])

\* C5: the list App::autocomplete returns is sorted by label and holds the
\* smallest matching labels: no matching pair that was left out sorts before
\* a returned one.
C5_SortedSmallest ==
    op = "autocomplete" =>
        /\ SortedByLabel(suggestions)
        /\ \A p \in AllMatching(input) \ Range(suggestions) :
               \A q \in Range(suggestions) : ~ StrLess(p[1], q[1])

Occurrences(seq, x) == Cardinality({ i \in 1..Len(seq) : seq[i] = x })

NoPairTwice(seq) == \A i \in 1..Len(seq) : Occurrences(seq, seq[i]) = 1

\* The hints a label is offered with by the reference vocabularies.
HintsOf(label) == { p[2] : p \in { q \in Range(ReferenceLabels) : q[1] = label } }

FuzzyOrder == << "Spell", "Item", "ItemCategory", "MagicItem", "Spells" >>

FuzzyRank(kind) == CHOOSE i \in 1..Len(FuzzyOrder) : FuzzyOrder[i] = kind

\* Whether the whole line names an entry of the sub-type.
ParsesAs(kind, line) ==
    CASE kind = "Spell"        -> \E w \in Range(SpellWords) : eq_ci(w, line)
      [] kind = "Item"         -> \E w \in Range(ItemWords) : eq_ci(w, line)
      [] kind = "ItemCategory" -> \E w \in Range(ItemCategoryWords) : eq_ci(w, line)
      [] kind = "MagicItem"    -> \E w \in Range(MagicItemWords) : eq_ci(w, line)
      [] kind = "Spells"       -> line = "spells"

\* C8: the fuzzy-match list holds exactly one entry for each sub-type the
\* whole input parses as, none dropped because another matched, in the
\* order Spell, Item, ItemCategory, MagicItem, Spells.
C8_FuzzyPerSubType ==
    Parsed =>
        /\ \A i \in 1..Len(ref_fuzzy) : ref_fuzzy[i].kind \in Range(FuzzyOrder)
        /\ \A kind \in Range(FuzzyOrder) :
               Cardinality({ i \in 1..Len(ref_fuzzy) : ref_fuzzy[i].kind = kind })
                   = (IF ParsesAs(kind, input) THEN 1 ELSE 0)
        /\ \A i \in 1..Len(ref_fuzzy) :
               ref_fuzzy[i].kind # "Spells" => eq_ci(ref_fuzzy[i].name, input)
        /\ \A i \in 1..Len(ref_fuzzy) : \A j \in 1..Len(ref_fuzzy) :
               i < j => FuzzyRank(ref_fuzzy[i].kind) < FuzzyRank(ref_fuzzy[j].kind)

C8_Witness ==
    /\ op = "parse_input"
    /\ input = "SHIELD"
    /\ ref_fuzzy = << Spell("Shield"), Item("Shield") >>

\* The command kind a category hint stands for.
HintKind(hint) ==
    CASE hint = "SRD license"       -> "OpenGameLicense"
      [] hint = "SRD index"         -> "Spells"
      [] hint = "SRD spell"         -> "Spell"
      [] hint = "SRD item"          -> "Item"
      [] hint = "SRD item category" -> "ItemCategory"
      [] hint = "SRD magic item"    -> "MagicItem"

Corresponds(c, suggestion) ==
    /\ c.kind = HintKind(suggestion[2])
    /\ c.kind \in { "Spells", "OpenGameLicense" } \/ eq_ci(c.name, suggestion[1])

\* C10: a label ReferenceCommand::autocomplete returned, submitted as offered
\* or in another letter case, parses to an exact match or to a fuzzy match of
\* the command its hint stands for.
C10_LabelsParse ==
    (op = "parse_input" /\ picked # None) =>
        \/ ref_exact # None /\ Corresponds(ref_exact[1], picked[1])
        \/ \E i \in 1..Len(ref_fuzzy) : Corresponds(ref_fuzzy[i], picked[1])

RaceRegenerated == op = "race_regenerate"

\* C2: a race regenerate leaves every locked field among gender, age, name,
\* size as it was, whatever the race, the values drawn and the other fields.
C2_LockedKept ==
    [][ RaceRegenerated' =>
          \A f \in StrategyFields : npc[f].is_locked => npc'[f] = npc[f] ]_vars

C2_Witness ==
    /\ RaceRegenerated
    /\ steps = << "gender", "age", "name", "size" >>
    /\ npc.name.is_locked
    /\ npc.name.value = Some("Ann")
    /\ ~ npc.size.is_locked

Populated(f) == npc[f].value # None

\* C7: after generate, gender, age, name and size are populated; name or
\* size may be absent only when gender or age is absent.
C7_GeneratedPopulated ==
    op = "generate" =>
        /\ Populated("gender")
        /\ Populated("age")
        /\ \A f \in { "name", "size" } :
               Populated(f) \/ ~ Populated("gender") \/ ~ Populated("age")

C7_Witness ==
    /\ op = "generate"
    /\ npc.race.value = Some("Warforged")
    /\ \A f \in StrategyFields : Populated(f) /\ ~ npc[f].is_locked

\* C9: a race regenerate pass runs gender, age, then name and size; name and
\* size are attempted exactly when gender and age both hold a value after
\* the first two steps, and are otherwise left as they were.
C9_NameSizeAfterGenderAge ==
    [][ (RaceRegenerated' /\ npc.race.value # None) =>
          IF npc'.gender.value # None /\ npc'.age.value # None
          THEN steps' = << "gender", "age", "name", "size" >>
          ELSE /\ steps' = << "gender", "age" >>
               /\ npc'.name = npc.name
               /\ npc'.size = npc.size ]_vars

C9_Witness ==
    /\ RaceRegenerated
    /\ steps = << "gender", "age" >>
    /\ npc.gender.is_locked
    /\ npc.gender.value = None
    /\ npc.age.value # None
    /\ npc.name.value = None
    /\ ~ npc.name.is_locked

=============================================================================
